---- MODULE Spec2Model ----
(***************************************************************************)
(* Model of express-user-data-api: the job queue (services/queue.ts), the  *)
(* LRU+TTL cache (services/cache.ts), the rate limiter                     *)
(* (services/rateLimiter.ts) and the middleware and route that use them.   *)
(*                                                                         *)
(* Time is the value of Date.now() in milliseconds.  Each component is     *)
(* explored under its own specifications, which leave the variables of the *)
(* other components unchanged; AppSpec runs the three together.            *)
(***************************************************************************)
EXTENDS Integers, Sequences, FiniteSets

VARIABLES
    now,         \* Date.now()
    alive,       \* the Node process is running (FALSE after process.exit)
    jobs,        \* every QueueJob created so far; a job's id is its index
    jobQueue,    \* queue.ts jobQueue: ids of the jobs waiting, in order
    activeJobs,  \* queue.ts activeJobs: the keys of the Map
    jobResults,  \* queue.ts jobResults: per job id, its entry if it has one
    firstKey,    \* the key jobResults iterates first (0: the Map is empty)
    queueStats,  \* queue.ts queueStats (the three counters that are stored)
    run,         \* per job: where its executeJob promise chain stands, who
                 \* started it, how often its processor ran and failed, and
                 \* whether a clearQueue met it queued or running
    caller,      \* per job: the promise addJob returned to its caller
    cache,       \* cache.ts cache: the Map, in insertion order
    stats,       \* cache.ts stats: hits, misses, size
    cleanupInterval, \* cache.ts cleanupInterval: the sweep timer is armed
    lastOp,      \* what the last call of the cache's exports did
    calls,       \* history: calls of the cache's exports since the start state
    rateLimitStore, \* rateLimiter.ts rateLimitStore: the entries by client id
    asked,       \* history: per client id, every checkRateLimit call made
                 \* for it: when, its outcome, and how many other requests
                 \* of the client were in flight
    lastCheck,   \* what the last checkRateLimit call met and returned
    pending,     \* per client id: requests received and not yet handled
    rateLimitCleanup \* rateLimiter.ts cleanupInterval: 0 while it is null,
                 \* else the time at which the interval fires next

queueVars == <<alive, jobs, jobQueue, activeJobs, jobResults, firstKey,
               queueStats, run, caller>>
cacheVars == <<cache, stats, cleanupInterval, lastOp, calls>>
limiterVars == <<rateLimitStore, asked, lastCheck, pending, rateLimitCleanup>>
vars == <<now, alive, jobs, jobQueue, activeJobs, jobResults, firstKey,
          queueStats, run, caller, cache, stats, cleanupInterval, lastOp,
          calls, rateLimitStore, asked, lastCheck, pending, rateLimitCleanup>>

----------------------------------------------------------------------------
(* Program constants                                                       *)

maxConcurrency == 5
retryAttempts == 3
retryDelay == 1000
ResultWindow == 5000
PollInterval == 100
CACHE_TTL == 60000
MAX_CACHE_SIZE == 100
SweepInterval == 30000
windowMs == 60000
maxRequests == 10
burstWindowMs == 10000
maxBurstRequests == 5
RateLimitSweepEvery == 300000

----------------------------------------------------------------------------
(* Bounds of the exploration                                               *)

MaxJobs == 2          \* addJob calls in a run of QueueSpec
MaxSlotJobs == 7      \* addJob calls in a run of SlotSpec
MaxNow == 2000        \* the clock of QueueSpec stops here
QueueTick == 1000     \* step of the queue clock

PreFill == 99         \* entries of the cache CacheSpec may start with
MaxCacheNow == 90000  \* the clock of CacheSpec stops here
MaxCalls == 4         \* calls of the cache's exports in a run of CacheSpec

MaxRequests == 11     \* checkRateLimit calls in a run of LimiterSpec
LimiterTick == 10000  \* step of the clock of LimiterSpec
MaxLimiterNow == 20000 \* the clock of LimiterSpec stops here
MaxWindowRequests == 12 \* checkRateLimit calls in a run of WindowSpec
WindowTick == 10000   \* step of the clock of WindowSpec
MaxWindowNow == 70000 \* the clock of WindowSpec stops here

MaxRaceRequests == 7  \* requests received in a run of RaceSpec
MaxPending == 2       \* requests of one client in flight at once
MaxRaceNow == 10000   \* the clock of RaceSpec stops here
MaxPaceRequests == 12 \* checkRateLimit calls in a run of PaceSpec
MaxPaceNow == 70000   \* the clock of PaceSpec stops here
MaxBurstCalls == 7    \* checkRateLimit calls in a run of BurstSpec
\* the instants of BurstSpec: within a second of 0 and of 400, and just
\* before and at ten seconds after each
BurstTimes == <<0, 400, 1000, 9999, 10000, 10399, 10400>>

MaxAppRequests == 6   \* requests in a run of AppSpec
MaxCallNow == 60000   \* no call of the cache is made in DrainSpec after this
MaxDrainNow == 150000 \* the clock of DrainSpec stops here
MaxIdleRequests == 4  \* checkRateLimit calls in a run of IdleSpec
IdleTick == 60000     \* step of the clock of IdleSpec
MaxAskNow == 240000   \* no request is made in IdleSpec after this time
MaxIdleNow == 600000  \* the clock of IdleSpec stops here
MaxClearJobs == 6     \* addJob calls in a run of ClearSpec
MaxSweepRequests == 12  \* checkRateLimit calls in a run of SweepSpec
SweepTick == 10000      \* step of the clock of SweepSpec
MinSweepAskNow == 290000 \* no request is made in SweepSpec before this time
MaxSweepNow == 310000   \* the clock of SweepSpec stops here
MaxCrowdRequests == 8 \* requests answered by the end of a run of CrowdSpec

UserIds == {1, 9}
\* split("_")[2] of a generated id: Math.random().toString(36).substr(2, 9).
\* 0.25 prints as "0.9" in base 36, so the part can spell a user id.
RandomParts == {"9", "k3v9x0c2a"}
TypicalParts == {"k3v9x0c2a"}

\* Cache keys are strings; only being empty or not is read of them.
\* EmptyKey is "", the keys 1..PreFill are those of the entries present at
\* the start, and one more key is new.
EmptyKey == 0
OpKeys == {EmptyKey, 1, PreFill + 1}
Values == {"a", "b"}
Ttls == {CACHE_TTL}

----------------------------------------------------------------------------
(* Helpers                                                                 *)

Digit(d) ==
    CASE d = 0 -> "0" [] d = 1 -> "1" [] d = 2 -> "2" [] d = 3 -> "3"
      [] d = 4 -> "4" [] d = 5 -> "5" [] d = 6 -> "6" [] d = 7 -> "7"
      [] d = 8 -> "8" [] d = 9 -> "9"

\* Number.prototype.toString() of a positive integer
RECURSIVE toString(_)
toString(n) == IF n < 10 THEN Digit(n) ELSE toString(n \div 10) \o Digit(n % 10)

----------------------------------------------------------------------------
(* queue.ts                                                                *)

\* jobResults is a Map from job id to {result, error, timestamp}.  Its
\* iteration order is read in one place, the find() of processQueue, which
\* takes the first value; no modelled operation deletes a single entry, so
\* the first key is all that is kept of the order.  (The interval of
\* startQueueCleanup deletes entries older than five minutes; the clocks of
\* the specifications stop long before that.)
NoResult == [has |-> FALSE, error |-> FALSE, result |-> 0, timestamp |-> 0]

HasResult(results, id) == results[id].has

SetResult(q, id, r) ==
    [q EXCEPT !.jobResults[id] = [has |-> TRUE, error |-> r.error,
                                   result |-> r.result,
                                   timestamp |-> r.timestamp],
              !.firstKey = IF q.firstKey = 0 THEN id ELSE q.firstKey]

\* createJob / generateJobId: ids are taken to be collision free, the id of
\* a job is its index in jobs and rnd is the random part of the id string.
\* QueueJob.timestamp is written here and read nowhere; it is left out.
createJob(userId, rnd) ==
    [userId |-> userId, rnd |-> rnd, retries |-> 0]

\* processQueue, lines 127-136: the predicate of find() ignores its
\* argument, so find() yields the first stored result as soon as some
\* recent result's id part equals the user id, and undefined otherwise.
existingResult(q, job, t) ==
    LET recentJobs == {i \in 1..Len(q.jobResults) :
                          /\ q.jobResults[i].has
                          /\ t - q.jobResults[i].timestamp < ResultWindow}
        found == \E i \in recentJobs : q.jobs[i].rnd = toString(job.userId)
    IN IF found /\ q.firstKey # 0
       THEN <<q.jobResults[q.firstKey]>> ELSE <<>>

\* processJob up to its await: the processor is invoked
invokeProcessor(q, id, by, via) ==
    [q EXCEPT !.run[id] = [state |-> "attempt", by |-> by, via |-> via,
                           calls |-> q.run[id].calls + 1,
                           failed |-> q.run[id].failed, due |-> 0,
                           atClear |-> q.run[id].atClear]]

\* the loop condition of processQueue, apart from the queue being non-empty
slotFreeOff(active) == Cardinality(active) <= maxConcurrency

slotFree(active) == Cardinality(active) < maxConcurrency

\* jobQueue.shift() (line 124): the job taken and the queue it leaves
shiftOff(queue) ==
    [job |-> queue[Len(queue)], rest |-> SubSeq(queue, 1, Len(queue) - 1)]

shift(queue) == [job |-> Head(queue), rest |-> Tail(queue)]

\* processQueue(processor): runs synchronously to the end of its loop
RECURSIVE processQueue(_, _, _)
processQueue(q, by, t) ==
    IF ~(Len(q.jobQueue) > 0 /\ slotFree(q.activeJobs))
    THEN q
    ELSE
      LET id == shift(q.jobQueue).job
          q1 == [q EXCEPT !.jobQueue = shift(q.jobQueue).rest]
          ex == existingResult(q1, q1.jobs[id], t)
      IN IF ex # <<>> /\ ~ex[1].error
         THEN LET q2 == SetResult(q1, id, ex[1])
              IN processQueue(
                   [q2 EXCEPT !.queueStats.completedJobs = @ + 1,
                              !.run[id].state = "reused"],
                   by, t)
         ELSE LET q2 == invokeProcessor(q1, id, by, "executeJob")
              IN processQueue(
                   [q2 EXCEPT !.activeJobs = q2.activeJobs \cup {id}], by, t)

\* pollForResult: settles the caller's promise once the job has a result
pollForResult(results, id, c) ==
    IF c.state = "pending" /\ HasResult(results, id)
    THEN IF results[id].error
         THEN [state |-> "rejected", value |-> 0]
         ELSE [state |-> "resolved", value |-> results[id].result]
    ELSE c

QueueState ==
    [jobs |-> jobs, jobQueue |-> jobQueue, activeJobs |-> activeJobs,
     jobResults |-> jobResults, firstKey |-> firstKey,
     queueStats |-> queueStats, run |-> run]

\* addJob(userId, processor): the whole synchronous body of the executor,
\* on the variables it touches
addJob(userId, rnd) ==
    LET id == Len(jobs) + 1
        q0 == [QueueState EXCEPT
                 !.jobs = Append(jobs, createJob(userId, rnd)),
                 !.queueStats.totalJobs = @ + 1,
                 !.jobQueue = Append(jobQueue, id),
                 !.jobResults = Append(jobResults, NoResult),
                 !.run = Append(run, [state |-> "queued", by |-> 0,
                                      via |-> "none", calls |-> 0,
                                      failed |-> 0, due |-> 0,
                                      atClear |-> FALSE])]
        q == processQueue(q0, userId, now)
    IN /\ jobs' = q.jobs
       /\ jobQueue' = q.jobQueue
       /\ activeJobs' = q.activeJobs
       /\ jobResults' = q.jobResults
       /\ firstKey' = q.firstKey
       /\ queueStats' = q.queueStats
       /\ run' = q.run
       /\ caller' = Append(caller,
              pollForResult(q.jobResults, id,
                            [state |-> "pending", value |-> 0]))

AddJobUpTo(userId, rnd, limit) ==
    /\ alive
    /\ Len(jobs) < limit
    /\ addJob(userId, rnd)
    /\ UNCHANGED <<now, alive>>
    /\ UNCHANGED cacheVars
    /\ UNCHANGED limiterVars

AddJob(userId, rnd) == AddJobUpTo(userId, rnd, MaxJobs)

BurstAddJob(userId, rnd) == AddJobUpTo(userId, rnd, MaxSlotJobs)

\* the finally of processQueue (lines 146-153): the job gives up its slot
finallyDeleteOff(active, id) == active

finallyDelete(active, id) == active \ {id}

\* The processor's promise resolves: processJob lines 62-71; executeJob or
\* retryJob resolves in turn and the finally of processQueue runs.
processorResolves(id) ==
    /\ alive
    /\ id \in 1..Len(jobs)
    /\ run[id].state = "attempt"
    /\ LET q == SetResult(QueueState, id,
                  [error |-> FALSE, result |-> jobs[id].userId,
                   timestamp |-> now])
       IN /\ jobResults' = q.jobResults
          /\ firstKey' = q.firstKey
    /\ queueStats' = [queueStats EXCEPT !.completedJobs = @ + 1]
    /\ run' = [run EXCEPT ![id].state = "ended"]
    /\ activeJobs' = finallyDelete(activeJobs, id)
    /\ UNCHANGED <<now, alive, jobs, jobQueue, caller>>

ProcessorResolves(id) ==
    /\ processorResolves(id)
    /\ UNCHANGED cacheVars
    /\ UNCHANGED limiterVars

\* process.on("unhandledRejection") of the app: logs and calls
\* process.exit(1); the value is whether the process is still running
unhandledRejection(running) == FALSE

\* the catch of executeJob (lines 113-118): is retryJob called
executeJobRetries(job) == job.retries < retryAttempts

\* the guard of retryJob (lines 90-92)
retryJobThrows(job) == job.retries >= retryAttempts

\* the delay retryJob waits (line 101), retries being already incremented
retryJobDelay(retries) == retryDelay * retries

\* The processor's promise rejects: processJob lines 72-83 store the error
\* and rethrow.  Under executeJob the catch calls retryJob, which increments
\* retries and arms its timer.  Under retryJob nothing catches: the
\* rejection leaves executeJob, the finally of processQueue runs, and the
\* promise that finally() returned is rejected with no handler, so the
\* unhandledRejection handler of the app calls process.exit(1).
ProcessorRejects(id) ==
    /\ alive
    /\ id \in 1..Len(jobs)
    /\ run[id].state = "attempt"
    /\ LET q == SetResult(QueueState, id,
                  [error |-> TRUE, result |-> 0, timestamp |-> now])
       IN /\ jobResults' = q.jobResults
          /\ firstKey' = q.firstKey
    /\ queueStats' = [queueStats EXCEPT !.failedJobs = @ + 1]
    /\ IF /\ run[id].via = "executeJob"
          /\ executeJobRetries(jobs[id])
          /\ ~retryJobThrows(jobs[id])
       THEN /\ jobs' = [jobs EXCEPT ![id].retries = @ + 1]
            /\ run' = [run EXCEPT ![id].state = "backoff",
                         ![id].failed = @ + 1,
                         ![id].due = now + retryJobDelay(jobs[id].retries + 1)]
            /\ UNCHANGED <<activeJobs, alive>>
       ELSE /\ run' = [run EXCEPT ![id].state = "ended", ![id].failed = @ + 1]
            /\ activeJobs' = finallyDelete(activeJobs, id)
            /\ alive' = unhandledRejection(alive)
            /\ UNCHANGED jobs
    /\ UNCHANGED <<now, jobQueue, caller>>
    /\ UNCHANGED cacheVars
    /\ UNCHANGED limiterVars

\* The timer of retryJob fires: line 104 calls processJob again
RetryTimer(id) ==
    /\ alive
    /\ id \in 1..Len(jobs)
    /\ run[id].state = "backoff"
    /\ now >= run[id].due
    /\ run' = [run EXCEPT ![id].state = "attempt", ![id].via = "retryJob",
                          ![id].calls = @ + 1]
    /\ UNCHANGED <<now, alive, jobs, jobQueue, activeJobs, jobResults,
                   firstKey, queueStats, caller>>
    /\ UNCHANGED cacheVars
    /\ UNCHANGED limiterVars

\* A timer of pollForResult fires and finds a result
Poll(id) ==
    /\ alive
    /\ id \in 1..Len(jobs)
    /\ caller[id].state = "pending"
    /\ HasResult(jobResults, id)
    /\ caller' = [caller EXCEPT ![id] = pollForResult(jobResults, id, @)]
    /\ UNCHANGED <<now, alive, jobs, jobQueue, activeJobs, jobResults,
                   firstKey, queueStats, run>>
    /\ UNCHANGED cacheVars
    /\ UNCHANGED limiterVars

\* clearQueue(): the three collections are emptied and the counters reset;
\* the promise chains of the jobs that run are not touched, and the jobs
\* that waited in jobQueue are in no collection any more ("cleared").
ClearQueue ==
    /\ alive
    /\ jobQueue' = <<>>
    /\ activeJobs' = {}
    /\ jobResults' = [i \in 1..Len(jobResults) |-> NoResult]
    /\ firstKey' = 0
    /\ queueStats' = [totalJobs |-> 0, completedJobs |-> 0, failedJobs |-> 0]
    /\ run' = [i \in 1..Len(run) |->
                 IF \E k \in 1..Len(jobQueue) : jobQueue[k] = i
                 THEN [run[i] EXCEPT !.state = "cleared", !.atClear = TRUE]
                 ELSE IF run[i].state \in {"attempt", "backoff"}
                      THEN [run[i] EXCEPT !.atClear = TRUE]
                      ELSE run[i]]
    /\ UNCHANGED <<now, alive, jobs, caller>>
    /\ UNCHANGED cacheVars
    /\ UNCHANGED limiterVars

\* Timers that are due run before the clock moves on: a poll is due every
\* PollInterval, a retry at its due time.
PollDue == \E id \in 1..Len(jobs) :
              caller[id].state = "pending" /\ HasResult(jobResults, id)

RetryDue == \E id \in 1..Len(jobs) :
              run[id].state = "backoff" /\ now >= run[id].due

ClockUpTo(limit) ==
    /\ alive
    /\ now < limit
    /\ QueueTick >= PollInterval => ~PollDue
    /\ ~RetryDue
    /\ now' = now + QueueTick
    /\ UNCHANGED queueVars
    /\ UNCHANGED limiterVars
    /\ UNCHANGED cacheVars
    /\ UNCHANGED limiterVars

QueueClock == ClockUpTo(MaxNow)

----------------------------------------------------------------------------
(* cache.ts                                                                *)

\* An entry is a CacheEntry {value, timestamp, ttl} under its key;
\* insertedAt is history, the time of the setCache that wrote the entry,
\* and is read by no operation.

\* Map.prototype.has / get / delete / set on the Map kept as a sequence in
\* insertion order: set of a present key keeps the key's position.
CacheHas(c, key) == \E i \in 1..Len(c) : c[i].key = key

CacheGet(c, key) == c[CHOOSE i \in 1..Len(c) : c[i].key = key]

CacheDeleteOff(c, key) == c

CacheDelete(c, key) == SelectSeq(c, LAMBDA e : e.key # key)

CachePut(c, e) ==
    IF CacheHas(c, e.key)
    THEN [i \in 1..Len(c) |-> IF c[i].key = e.key THEN e ELSE c[i]]
    ELSE Append(c, e)

isExpired(entry, t) == t - entry.timestamp > entry.ttl

removeExpiredEntriesOff(c, t) == c

removeExpiredEntries(c, t) ==
    SelectSeq(c, LAMBDA e : ~(t - e.timestamp > e.ttl))

\* the scan of evictLRU (lines 45-53): the running oldest key and time
RECURSIVE oldestFrom(_, _, _, _)
oldestFrom(c, i, oldestKey, oldestTime) ==
    IF i > Len(c) THEN oldestKey
    ELSE IF c[i].timestamp < oldestTime
         THEN oldestFrom(c, i + 1, c[i].key, c[i].timestamp)
         ELSE oldestFrom(c, i + 1, oldestKey, oldestTime)

\* if (oldestKey): a string is truthy unless it is empty
truthy(key) == key # EmptyKey

evictLRU(c, t) ==
    IF Len(c) >= MAX_CACHE_SIZE
    THEN LET oldestKey == oldestFrom(c, 1, EmptyKey, t)
         IN IF truthy(oldestKey) THEN CacheDelete(c, oldestKey) ELSE c
    ELSE c

\* updateStats, the part that sets stats.size; recordResponseTime ends every
\* exported call with it.  The latency samples (responseTimes) and the
\* average over them feed no decision and are not kept.
updateStats(st, c) == [st EXCEPT !.size = Len(c)]

\* What a call returned and, for setCache, what it met and what it removed:
\* before and expired count the entries, and those of them past their ttl,
\* that the call found; oldest is the earliest last access among them;
\* dropped are the entries whose keys the call took out of the store;
\* expiredKept counts the entries past their ttl that it left there.  For
\* clearCache and getCacheStats, afterClear tells whether the call before
\* was clearCache.
NoOp == [op |-> "none", key |-> EmptyKey, found |-> FALSE, value |-> "",
         since |-> 0, ttl |-> 0, before |-> 0, expired |-> 0, oldest |-> 0,
         dropped |-> {}, expiredKept |-> 0, afterClear |-> FALSE]

PastTtl(c, t) == {i \in 1..Len(c) : t - c[i].timestamp > c[i].ttl}

Dropped(c, after, t) ==
    {[key |-> c[i].key, timestamp |-> c[i].timestamp,
      live |-> ~(t - c[i].timestamp > c[i].ttl)] :
        i \in {j \in 1..Len(c) : ~CacheHas(after, c[j].key)}}

Earliest(c) ==
    LET times == {c[i].timestamp : i \in 1..Len(c)}
    IN CHOOSE m \in times : \A x \in times : m <= x

\* getFromCache(key), on the variables it touches
getFromCache(key) ==
    /\ calls' = calls + 1
    /\ IF ~CacheHas(cache, key)
       THEN /\ stats' = updateStats([stats EXCEPT !.misses = @ + 1], cache)
            /\ cache' = cache
            /\ lastOp' = [NoOp EXCEPT !.op = "get", !.key = key]
       ELSE LET entry == CacheGet(cache, key)
            IN IF isExpired(entry, now)
               THEN /\ cache' = CacheDelete(cache, key)
                    /\ stats' = updateStats([stats EXCEPT !.misses = @ + 1],
                                            cache')
                    /\ lastOp' = [NoOp EXCEPT !.op = "get", !.key = key]
               ELSE /\ cache' = CachePut(cache,
                                   [entry EXCEPT !.timestamp = now])
                    /\ stats' = updateStats([stats EXCEPT !.hits = @ + 1],
                                            cache')
                    /\ lastOp' = [op |-> "get", key |-> key, found |-> TRUE,
                                  value |-> entry.value,
                                  since |-> now - entry.insertedAt,
                                  ttl |-> entry.ttl]

GetFromCache(key) ==
    /\ calls < MaxCalls
    /\ getFromCache(key)
    /\ UNCHANGED <<now, cleanupInterval>>
    /\ UNCHANGED queueVars
    /\ UNCHANGED limiterVars

\* setCache(key, value, ttl), on the variables it touches
setCache(key, value, ttl) ==
    /\ calls' = calls + 1
    /\ LET swept == removeExpiredEntries(cache, now)
           room == evictLRU(swept, now)
           entry == [key |-> key, value |-> value, timestamp |-> now,
                     ttl |-> ttl, insertedAt |-> now]
       IN /\ cache' = CachePut(room, entry)
          /\ stats' = updateStats(stats, cache')
    /\ lastOp' = [NoOp EXCEPT
                    !.op = "set", !.key = key,
                    !.found = CacheHas(cache, key),
                    !.before = Len(cache),
                    !.expired = Cardinality(PastTtl(cache, now)),
                    !.oldest = IF cache = <<>> THEN 0 ELSE Earliest(cache),
                    !.dropped = Dropped(cache, cache', now),
                    !.expiredKept = Cardinality(PastTtl(cache', now))]

SetCache(key, value, ttl) ==
    /\ calls < MaxCalls
    /\ setCache(key, value, ttl)
    /\ UNCHANGED <<now, cleanupInterval>>
    /\ UNCHANGED queueVars
    /\ UNCHANGED limiterVars

DeleteFromCache(key) ==
    /\ calls < MaxCalls
    /\ calls' = calls + 1
    /\ cache' = CacheDelete(cache, key)
    /\ stats' = updateStats(stats, cache')
    /\ lastOp' = [NoOp EXCEPT !.op = "delete", !.key = key,
                              !.found = CacheHas(cache, key)]
    /\ UNCHANGED <<now, cleanupInterval>>
    /\ UNCHANGED queueVars
    /\ UNCHANGED limiterVars

\* the counters as clearCache resets them (lines 155-157)
clearedStatsOff(st) == [st EXCEPT !.hits = 0, !.size = 0]

clearedStats(st) == [st EXCEPT !.hits = 0, !.misses = 0, !.size = 0]

ClearCache ==
    /\ calls < MaxCalls
    /\ calls' = calls + 1
    /\ cache' = <<>>
    /\ stats' = updateStats(clearedStats(stats), cache')
    /\ lastOp' = [NoOp EXCEPT !.op = "clear",
                              !.afterClear = (lastOp.op = "clear")]
    /\ UNCHANGED <<now, cleanupInterval>>
    /\ UNCHANGED queueVars
    /\ UNCHANGED limiterVars

GetCacheStats ==
    /\ calls < MaxCalls
    /\ calls' = calls + 1
    /\ cache' = removeExpiredEntries(cache, now)
    /\ stats' = updateStats(stats, cache')
    /\ lastOp' = [NoOp EXCEPT !.op = "stats",
                              !.afterClear = (lastOp.op = "clear")]
    /\ UNCHANGED <<now, cleanupInterval>>
    /\ UNCHANGED queueVars
    /\ UNCHANGED limiterVars

StartCacheCleanup ==
    /\ ~cleanupInterval
    /\ cleanupInterval' = TRUE
    /\ UNCHANGED <<now, cache, stats, lastOp, calls>>
    /\ UNCHANGED queueVars
    /\ UNCHANGED limiterVars

\* the callback of the interval armed by startCacheCleanup
CleanupSweep ==
    /\ cleanupInterval
    /\ cache' = removeExpiredEntries(cache, now)
    /\ stats' = IF Len(cache') < Len(cache) THEN updateStats(stats, cache')
                ELSE stats
    /\ UNCHANGED <<now, cleanupInterval, lastOp, calls>>
    /\ UNCHANGED queueVars
    /\ UNCHANGED limiterVars

CacheClock ==
    /\ now < MaxCacheNow
    /\ now' = now + SweepInterval
    /\ UNCHANGED cacheVars
    /\ UNCHANGED limiterVars
    /\ UNCHANGED queueVars
    /\ UNCHANGED limiterVars

----------------------------------------------------------------------------
(* rateLimiter.ts and the middleware                                       *)

\* A request as the limiter reads it: the items of the X-Forwarded-For
\* header, split at commas and trimmed (none: the header is absent), the
\* X-Real-IP header ("" when absent) and req.ip.
Requests ==
    {[forwardedFor |-> <<>>, realIp |-> "", ip |-> "a"],
     [forwardedFor |-> <<>>, realIp |-> "", ip |-> "b"],
     [forwardedFor |-> <<"b", "a">>, realIp |-> "", ip |-> "a"],
     [forwardedFor |-> <<"">>, realIp |-> "a", ip |-> "b"]}

\* || takes the first operand that is not the empty string
getClientIdentifier(req) ==
    LET first == IF req.forwardedFor = <<>> THEN ""
                 ELSE Head(req.forwardedFor)
    IN IF first # "" THEN first
       ELSE IF req.realIp # "" THEN req.realIp
       ELSE IF req.ip # "" THEN req.ip
       ELSE "unknown"

Clients == {getClientIdentifier(req) : req \in Requests}

NewEntry == [requests |-> <<>>, burstRequests |-> <<>>]

cleanupExpiredRequestsOff(requests, window, t) ==
    SelectSeq(requests, LAMBDA timestamp : t - timestamp <= window)

cleanupExpiredRequests(requests, window, t) ==
    SelectSeq(requests, LAMBDA timestamp : t - timestamp < window)

cleanedOff(entry, t) ==
    [requests |-> cleanupExpiredRequests(entry.requests, burstWindowMs, t),
     burstRequests |->
         cleanupExpiredRequests(entry.burstRequests, windowMs, t)]

\* the two reassignments that isRateLimited, addRequest and getRateLimitInfo
\* each make
cleaned(entry, t) ==
    [requests |-> cleanupExpiredRequests(entry.requests, windowMs, t),
     burstRequests |->
         cleanupExpiredRequests(entry.burstRequests, burstWindowMs, t)]

\* the decision of isRateLimited on the cleaned entry
overLimitOff(entry) ==
    \/ Len(entry.burstRequests) > maxBurstRequests
    \/ Len(entry.requests) > maxRequests

overLimit(entry) ==
    \/ Len(entry.burstRequests) >= maxBurstRequests
    \/ Len(entry.requests) >= maxRequests

\* isRateLimited: the entry as it leaves it, and what it returns
isRateLimited(entry, t) ==
    LET e == cleaned(entry, t)
    IN [entry |-> e, limited |-> overLimit(e)]

addRequestOff(entry, t) ==
    cleaned([requests |-> Append(entry.requests, t),
             burstRequests |-> entry.burstRequests], t)

addRequest(entry, t) ==
    cleaned([requests |-> Append(entry.requests, t),
             burstRequests |-> Append(entry.burstRequests, t)], t)

\* Math.min over a non-empty set of numbers
MathMin(S) == CHOOSE m \in S : \A x \in S : m <= x

\* Math.ceil(ms / 1000)
CeilSeconds(ms) == (ms + 999) \div 1000

SeqRange(q) == {q[i] : i \in 1..Len(q)}

\* getRateLimitInfo: the entry as it leaves it, and the info it returns
getRateLimitInfo(entry, t) ==
    LET e == cleaned(entry, t)
        oldestRequest ==
            MathMin(SeqRange(e.requests) \cup SeqRange(e.burstRequests)
                    \cup {t})
        resetTime == oldestRequest + windowMs
    IN [entry |-> e,
        info |-> [limit |-> maxRequests,
                  remaining |-> IF maxRequests - Len(e.requests) > 0
                                THEN maxRequests - Len(e.requests) ELSE 0,
                  resetTime |-> CeilSeconds(resetTime)]]

\* does checkRateLimit call addRequest
recordsOff(isLimited) == TRUE

records(isLimited) == ~isLimited

\* rateLimitStore.set(clientId, entry) and the writes to that entry, an
\* object no other key holds (lines 131-138)
putEntryOff(store, clientId, entry) ==
    [c \in DOMAIN store \cup {clientId} |-> entry]

putEntry(store, clientId, entry) ==
    [c \in DOMAIN store \cup {clientId} |->
        IF c = clientId THEN entry ELSE store[c]]

\* checkRateLimit(req) on the store: the store as it leaves it, and what it
\* returns
checkRateLimit(store, req, t) ==
    LET clientId == getClientIdentifier(req)
        entry == IF clientId \in DOMAIN store THEN store[clientId]
                 ELSE NewEntry
        chk == isRateLimited(entry, t)
        added == IF records(chk.limited) THEN addRequest(chk.entry, t)
                 ELSE chk.entry
        got == getRateLimitInfo(added, t)
    IN [store |-> putEntry(store, clientId, got.entry),
        allowed |-> ~chk.limited,
        info |-> got.info]

\* next: the middleware called next(); status: the status it answered with
\* itself (0: none)
NoCheck == [clientId |-> "", at |-> 0, allowed |-> FALSE, known |-> FALSE,
            before |-> NewEntry,
            info |-> [limit |-> 0, remaining |-> 0, resetTime |-> 0],
            next |-> FALSE, status |-> 0]

\* does rateLimitMiddleware call next()
callsNextOff(allowed) == TRUE

callsNext(allowed) == allowed

\* rateLimitMiddleware, on the variables of the limiter:
\* ResponseHelper.rateLimitExceeded answers with status 429
rateLimitMiddleware(req) ==
    LET clientId == getClientIdentifier(req)
        res == checkRateLimit(rateLimitStore, req, now)
    IN /\ rateLimitStore' = res.store
       /\ asked' = [asked EXCEPT ![clientId] =
                       Append(@, [at |-> now, allowed |-> res.allowed,
                                  others |-> pending'[clientId]])]
       /\ lastCheck' = [clientId |-> clientId, at |-> now,
                        allowed |-> res.allowed,
                        known |-> clientId \in DOMAIN rateLimitStore,
                        before |-> IF clientId \in DOMAIN rateLimitStore
                                   THEN rateLimitStore[clientId]
                                   ELSE NewEntry,
                        info |-> res.info,
                        next |-> callsNext(res.allowed),
                        status |-> IF callsNext(res.allowed) THEN 0 ELSE 429]
       /\ UNCHANGED rateLimitCleanup

\* checkRateLimit calls made so far
Handled(a) ==
    LET RECURSIVE Sum(_)
        Sum(S) == IF S = {} THEN 0
                  ELSE LET c == CHOOSE x \in S : TRUE
                       IN Len(a[c]) + Sum(S \ {c})
    IN Sum(Clients)

\* A request for a route that uses neither the cache nor the queue (GET
\* /health, GET /api): the middleware and, if it calls next(), a handler
\* that touches no modelled state.
GetHealthUpTo(req, limit) ==
    /\ Handled(asked) < limit
    /\ UNCHANGED <<now, pending>>
    /\ rateLimitMiddleware(req)
    /\ UNCHANGED queueVars
    /\ UNCHANGED cacheVars

GetHealth(req) == GetHealthUpTo(req, MaxRequests)

LimiterClockBy(step, limit) ==
    /\ now < limit
    /\ now' = now + step
    /\ UNCHANGED queueVars
    /\ UNCHANGED cacheVars
    /\ UNCHANGED limiterVars

LimiterClock == LimiterClockBy(LimiterTick, MaxLimiterNow)

\* A request reaches the server: its handling is a task of the event loop
\* that has not run yet.
Arrive(req) ==
    LET clientId == getClientIdentifier(req)
    IN /\ Handled(asked) + pending["a"] + pending["b"] < MaxRaceRequests
       /\ pending[clientId] < MaxPending
       /\ pending' = [pending EXCEPT ![clientId] = @ + 1]
       /\ UNCHANGED <<now, rateLimitStore, asked, lastCheck, rateLimitCleanup>>
       /\ UNCHANGED queueVars
       /\ UNCHANGED cacheVars

\* The event loop runs the handling of a request that is in flight: the
\* middleware runs to its end, it has no await.
Handle(req) ==
    LET clientId == getClientIdentifier(req)
    IN /\ pending[clientId] > 0
       /\ pending' = [pending EXCEPT ![clientId] = @ - 1]
       /\ rateLimitMiddleware(req)
       /\ UNCHANGED now
       /\ UNCHANGED queueVars
       /\ UNCHANGED cacheVars

\* requests in flight are handled before the clock moves on
RaceClock ==
    /\ \A c \in Clients : pending[c] = 0
    /\ LimiterClockBy(10000, MaxRaceNow)

\* at most one request of a client at one value of the clock
PacedGetHealth(req) ==
    LET q == asked[getClientIdentifier(req)]
    IN /\ q # <<>> => q[Len(q)].at < now
       /\ GetHealthUpTo(req, MaxPaceRequests)

PaceClock == LimiterClockBy(7000, MaxPaceNow)

\* the clock steps through the instants of BurstTimes
BurstClock ==
    /\ \E i \in 1..(Len(BurstTimes) - 1) :
          now = BurstTimes[i] /\ now' = BurstTimes[i + 1]
    /\ UNCHANGED queueVars
    /\ UNCHANGED cacheVars
    /\ UNCHANGED limiterVars

\* the test of the interval of startRateLimitCleanup (lines 203-207):
\* no request of the entry lies within two long windows
recentOff(ts, t) == t - ts < burstWindowMs

recent(ts, t) == t - ts < windowMs * 2

inactiveOff(entry, t) == FALSE

inactive(entry, t) ==
    SelectSeq(entry.requests, LAMBDA ts : recent(ts, t)) = <<>>

\* The callback of the interval armed by startRateLimitCleanup; setInterval
\* arms the timer again when the callback has run.
RateLimitSweep ==
    /\ rateLimitCleanup # 0
    /\ now >= rateLimitCleanup
    /\ rateLimitStore' =
          [c \in {d \in DOMAIN rateLimitStore :
                     ~inactive(rateLimitStore[d], now)} |-> rateLimitStore[c]]
    /\ rateLimitCleanup' = now + RateLimitSweepEvery
    /\ UNCHANGED <<now, asked, lastCheck, pending>>
    /\ UNCHANGED queueVars
    /\ UNCHANGED cacheVars

RateLimitSweepDue == rateLimitCleanup # 0 /\ now >= rateLimitCleanup

\* requests are made until MaxAskNow and the clock runs on to MaxIdleNow; a
\* sweep that is due runs before the clock moves on
IdleGetHealth(req) ==
    /\ now <= MaxAskNow
    /\ GetHealthUpTo(req, MaxIdleRequests)

IdleClock ==
    /\ ~RateLimitSweepDue
    /\ LimiterClockBy(IdleTick, MaxIdleNow)

\* the limiter before any request; due is the value of rateLimitCleanup
LimiterStart(due) ==
    /\ rateLimitStore = << >>
    /\ asked = [c \in Clients |-> <<>>]
    /\ lastCheck = NoCheck
    /\ pending = [c \in Clients |-> 0]
    /\ rateLimitCleanup = due

LimiterInit == LimiterStart(0)

----------------------------------------------------------------------------
(* GET /api/users/:id                                                      *)

\* the check of the parsed id: isNaN(userId) || userId <= 0 answers 400
validUserId(userId) == userId > 0

\* `user:${userId}`: the key is never the empty string; it is kept as the id
cacheKey(userId) == userId

\* mockData.ts getUserById, after its delay: the user or null (none)
getUserById(id) == IF id \in 1..5 THEN <<id>> ELSE <<>>

\* A GET /api/users/:id request, from the middleware to the first await of
\* the route handler: the rate limiter, the check of the id, the cache
\* lookup and, on a miss, the synchronous part of addJob.
GetUserUpTo(req, userId, rnd, limit) ==
    /\ alive
    /\ Handled(asked) < limit
    /\ UNCHANGED <<now, alive, pending, cleanupInterval>>
    /\ rateLimitMiddleware(req)
    /\ IF ~lastCheck'.next \/ ~validUserId(userId)
       THEN /\ UNCHANGED <<jobs, jobQueue, activeJobs, jobResults, firstKey,
                           queueStats, run, caller>>
            /\ UNCHANGED <<cache, stats, lastOp, calls>>
       ELSE /\ getFromCache(cacheKey(userId))
            /\ IF lastOp'.found
               THEN UNCHANGED <<jobs, jobQueue, activeJobs, jobResults,
                                firstKey, queueStats, run, caller>>
               ELSE addJob(userId, rnd)

GetUser(req, userId, rnd) == GetUserUpTo(req, userId, rnd, MaxAppRequests)

\* The processor the route handler passed to addJob, run for job id by the
\* processQueue of the request for user run[id].by: getUserById(job.userId)
\* found the user, so it is cached under the key of that request and the
\* processor resolves.
UserFetched(id) ==
    /\ id \in 1..Len(jobs)
    /\ getUserById(jobs[id].userId) # <<>>
    /\ processorResolves(id)
    /\ setCache(cacheKey(run[id].by), getUserById(jobs[id].userId)[1],
                CACHE_TTL)
    /\ UNCHANGED cleanupInterval
    /\ UNCHANGED limiterVars

\* getUserById returned null: the processor throws "not found"
UserNotFound(id) ==
    /\ id \in 1..Len(jobs)
    /\ getUserById(jobs[id].userId) = <<>>
    /\ ProcessorRejects(id)

----------------------------------------------------------------------------
(* Specifications                                                          *)

QueueInit ==
    /\ now = 0
    /\ alive = TRUE
    /\ jobs = <<>>
    /\ jobQueue = <<>>
    /\ activeJobs = {}
    /\ jobResults = <<>>
    /\ firstKey = 0
    /\ queueStats = [totalJobs |-> 0, completedJobs |-> 0, failedJobs |-> 0]
    /\ run = <<>>
    /\ caller = <<>>

CacheInit ==
    /\ cache = <<>>
    /\ stats = [hits |-> 0, misses |-> 0, size |-> 0]
    /\ cleanupInterval = FALSE
    /\ lastOp = NoOp
    /\ calls = 0

Init == QueueInit /\ CacheInit /\ LimiterInit

\* The cache after setCache(k, "a") for k = 1..PreFill at time 0
Filled ==
    [k \in 1..PreFill |-> [key |-> k, value |-> "a", timestamp |-> 0,
                           ttl |-> CACHE_TTL, insertedAt |-> 0]]

CacheStart ==
    /\ QueueInit
    /\ cache \in {<<>>, Filled}
    /\ stats = [hits |-> 0, misses |-> 0, size |-> Len(cache)]
    /\ cleanupInterval = FALSE
    /\ lastOp = NoOp
    /\ calls = 0
    /\ LimiterInit

CacheNext ==
    \/ \E k \in OpKeys, v \in Values, ttl \in Ttls : SetCache(k, v, ttl)
    \/ \E k \in OpKeys : GetFromCache(k)
    \/ \E k \in OpKeys : DeleteFromCache(k)
    \/ ClearCache
    \/ GetCacheStats
    \/ StartCacheCleanup
    \/ CleanupSweep
    \/ CacheClock

CacheSpec == CacheStart /\ [][CacheNext]_vars

\* Every export of the cache on two keys, from the empty store, as time
\* passes: what each call returns and leaves behind.
ContractKeys == {1, 2}

ContractNext ==
    \/ \E k \in ContractKeys : SetCache(k, "a", CACHE_TTL)
    \/ \E k \in ContractKeys : GetFromCache(k)
    \/ \E k \in ContractKeys : DeleteFromCache(k)
    \/ ClearCache
    \/ GetCacheStats
    \/ CacheClock

ContractSpec == Init /\ [][ContractNext]_vars

\* setCache and getFromCache that stop, startCacheCleanup, and the interval
\* it arms: the callback runs again and again and the clock moves on.
DrainClock ==
    /\ now < MaxDrainNow
    /\ now' = now + SweepInterval
    /\ UNCHANGED cacheVars
    /\ UNCHANGED queueVars
    /\ UNCHANGED limiterVars

DrainNext ==
    \/ \E k \in ContractKeys :
          now <= MaxCallNow /\ SetCache(k, "a", CACHE_TTL)
    \/ \E k \in ContractKeys : now <= MaxCallNow /\ GetFromCache(k)
    \/ StartCacheCleanup
    \/ CleanupSweep
    \/ DrainClock

DrainSpec ==
    /\ Init
    /\ [][DrainNext]_vars
    /\ WF_vars(CleanupSweep)
    /\ WF_vars(DrainClock)

\* setCache with two ttls and two keys the initial store does not hold,
\* getFromCache and the clock: what decides the victim of an eviction.
EvictKeys == {1, PreFill + 1, PreFill + 2}
EvictTtls == {CACHE_TTL, 20000}

EvictNext ==
    \/ \E k \in EvictKeys, ttl \in EvictTtls : SetCache(k, "a", ttl)
    \/ \E k \in EvictKeys : GetFromCache(k)
    \/ CacheClock

EvictSpec == CacheStart /\ [][EvictNext]_vars

LimiterNext ==
    \/ \E req \in Requests : GetHealth(req)
    \/ LimiterClock

LimiterSpec == Init /\ [][LimiterNext]_vars

\* One client over a span of time that lets the long window fill and roll
RequestsOf(clientId) ==
    {req \in Requests : getClientIdentifier(req) = clientId}

WindowNext ==
    \/ \E req \in RequestsOf("a") : GetHealthUpTo(req, MaxWindowRequests)
    \/ LimiterClockBy(WindowTick, MaxWindowNow)

WindowSpec == Init /\ [][WindowNext]_vars

BurstNext ==
    \/ \E req \in RequestsOf("a") : GetHealthUpTo(req, MaxBurstCalls)
    \/ BurstClock

BurstSpec == Init /\ [][BurstNext]_vars

PaceNext ==
    \/ \E req \in RequestsOf("a") : PacedGetHealth(req)
    \/ PaceClock

PaceSpec == Init /\ [][PaceNext]_vars

RaceNext ==
    \/ \E req \in Requests : Arrive(req)
    \/ \E req \in Requests : Handle(req)
    \/ RaceClock

RaceSpec == Init /\ [][RaceNext]_vars

\* createApp: the state of Init with the sweeps of the cache and of the
\* limiter armed
AppInit ==
    /\ QueueInit
    /\ cache = <<>>
    /\ stats = [hits |-> 0, misses |-> 0, size |-> 0]
    /\ cleanupInterval = TRUE
    /\ lastOp = NoOp
    /\ calls = 0
    /\ LimiterStart(RateLimitSweepEvery)

\* Requests of one client for users within one value of the clock: more
\* than the burst window admits; no retry timer or sweep comes due inside
\* it.  The id 0 is one the route rejects.
AppUserIds == UserIds \cup {0}

AppNext ==
    \/ ~PollDue /\ \E req \in RequestsOf("a"), u \in AppUserIds,
                      r \in TypicalParts : GetUser(req, u, r)
    \/ ~PollDue /\ \E id \in 1..MaxAppRequests : UserFetched(id)
    \/ ~PollDue /\ \E id \in 1..MaxAppRequests : UserNotFound(id)
    \/ \E id \in 1..MaxAppRequests : Poll(id)

AppSpec == AppInit /\ [][AppNext]_vars

\* The state after five GET /api/users/1 of client a at time 0, none of them
\* answered yet: every slot of the queue is taken.
Crowd == 1..maxConcurrency

CrowdInit ==
    /\ now = 0
    /\ alive = TRUE
    /\ jobs = [i \in Crowd |-> createJob(1, "k3v9x0c2a")]
    /\ jobQueue = <<>>
    /\ activeJobs = Crowd
    /\ jobResults = [i \in Crowd |-> NoResult]
    /\ firstKey = 0
    /\ queueStats = [totalJobs |-> maxConcurrency, completedJobs |-> 0,
                     failedJobs |-> 0]
    /\ run = [i \in Crowd |-> [state |-> "attempt", by |-> 1,
                               via |-> "executeJob", calls |-> 1,
                               failed |-> 0, due |-> 0, atClear |-> FALSE]]
    /\ caller = [i \in Crowd |-> [state |-> "pending", value |-> 0]]
    /\ cache = <<>>
    /\ stats = [hits |-> 0, misses |-> maxConcurrency, size |-> 0]
    /\ cleanupInterval = TRUE
    /\ lastOp = [NoOp EXCEPT !.op = "get", !.key = cacheKey(1)]
    /\ calls = maxConcurrency
    /\ rateLimitStore =
          [c \in {"a"} |-> [requests |-> [i \in Crowd |-> 0],
                            burstRequests |-> [i \in Crowd |-> 0]]]
    /\ asked = [c \in Clients |->
                  IF c = "a"
                  THEN [i \in Crowd |->
                          [at |-> 0, allowed |-> TRUE, others |-> 0]]
                  ELSE <<>>]
    /\ lastCheck =
          [clientId |-> "a", at |-> 0, allowed |-> TRUE, known |-> TRUE,
           before |-> [requests |-> [i \in 1..(maxConcurrency - 1) |-> 0],
                       burstRequests |->
                           [i \in 1..(maxConcurrency - 1) |-> 0]],
           info |-> [limit |-> maxRequests,
                     remaining |-> maxRequests - maxConcurrency,
                     resetTime |-> CeilSeconds(windowMs)],
           next |-> TRUE, status |-> 0]
    /\ pending = [c \in Clients |-> 0]
    /\ rateLimitCleanup = RateLimitSweepEvery

\* Client b then asks for users 2 and 3 within the same value of the clock,
\* so that a job waits in jobQueue for a slot.
CrowdUserIds == {2, 3}

CrowdNext ==
    \/ ~PollDue /\ \E req \in RequestsOf("b"), u \in CrowdUserIds,
                      r \in TypicalParts :
                      GetUserUpTo(req, u, r, MaxCrowdRequests)
    \/ ~PollDue /\ \E id \in 1..MaxCrowdRequests : UserFetched(id)
    \/ \E id \in 1..MaxCrowdRequests : Poll(id)

CrowdSpec == CrowdInit /\ [][CrowdNext]_vars

\* The limiter after createApp, under requests that stop: the interval of
\* startRateLimitCleanup fires when it is due and the clock moves on.
IdleNext ==
    \/ \E req \in Requests : IdleGetHealth(req)
    \/ RateLimitSweep
    \/ IdleClock

IdleSpec ==
    /\ AppInit
    /\ [][IdleNext]_vars
    /\ WF_vars(RateLimitSweep)
    /\ WF_vars(IdleClock)

\* The limiter after createApp around the first firing of the interval of
\* startRateLimitCleanup: requests arrive from MinSweepAskNow on, the sweep
\* runs when it is due, before the clock moves on.
SweepGetHealth(req) ==
    /\ now >= MinSweepAskNow
    /\ GetHealthUpTo(req, MaxSweepRequests)

SweepClock ==
    /\ ~RateLimitSweepDue
    /\ LimiterClockBy(SweepTick, MaxSweepNow)

SweepNext ==
    \/ \E req \in Requests : SweepGetHealth(req)
    \/ RateLimitSweep
    \/ SweepClock

SweepSpec == AppInit /\ [][SweepNext]_vars

\* addJob for one user, fetches that succeed, the polls, and clearQueue,
\* all within one value of the clock.  A fetch that was started settles and
\* a poll that is due runs.
ClearNext ==
    \/ ~PollDue /\ \E r \in TypicalParts : AddJobUpTo(1, r, MaxClearJobs)
    \/ ~PollDue /\ \E id \in 1..MaxClearJobs : ProcessorResolves(id)
    \/ \E id \in 1..MaxClearJobs : Poll(id)
    \/ ~PollDue /\ ClearQueue

ClearSpec ==
    /\ Init
    /\ [][ClearNext]_vars
    /\ \A id \in 1..MaxClearJobs :
          WF_vars(~PollDue /\ ProcessorResolves(id)) /\ WF_vars(Poll(id))

QueueNext ==
    \/ \E u \in UserIds, r \in RandomParts : AddJob(u, r)
    \/ \E id \in 1..MaxJobs : ProcessorResolves(id)
    \/ \E id \in 1..MaxJobs : ProcessorRejects(id)
    \/ \E id \in 1..MaxJobs : RetryTimer(id)
    \/ \E id \in 1..MaxJobs : Poll(id)
    \/ QueueClock

QueueSpec == Init /\ [][QueueNext]_vars

\* A burst: more calls than there are slots, for one user and the usual
\* random part, all within one value of the clock, so that no retry timer
\* comes due inside it.  A poll that is due runs before the next event.
SlotNext ==
    \/ ~PollDue /\ \E u \in {1}, r \in TypicalParts : BurstAddJob(u, r)
    \/ ~PollDue /\ \E id \in 1..MaxSlotJobs : ProcessorResolves(id)
    \/ ~PollDue /\ \E id \in 1..MaxSlotJobs : ProcessorRejects(id)
    \/ \E id \in 1..MaxSlotJobs : Poll(id)

SlotSpec == Init /\ [][SlotNext]_vars

----------------------------------------------------------------------------
(* Properties of the queue                                                 *)

JobIds == 1..Len(jobs)

\* jobs whose executeJob chain is under way: they hold an admission slot
Running == {id \in JobIds : run[id].state \in {"attempt", "backoff"}}

\* jobs whose processor is running now
Fetching == {id \in JobIds : run[id].state = "attempt"}

\* C1: calls of addJob for one user that overlap (neither job has a result
\* yet) share one invocation of the processor.
C1_OneFetchForOverlappingCalls ==
    \A i, j \in JobIds :
        (/\ i # j
         /\ jobs[i].userId = jobs[j].userId
         /\ ~HasResult(jobResults, i)
         /\ ~HasResult(jobResults, j))
        => run[i].calls + run[j].calls <= 1

\* C2: a job that was queued is started once a slot frees, with no further
\* addJob call: it never waits in the queue while no job holds a slot, where
\* no step of the queue is left that would start it.
C2_QueuedJobStartsWhenSlotFrees ==
    (alive /\ jobQueue # <<>>) => Running # {}

\* C3: no failure of a fetch ends the process.
C3_ProcessSurvivesFailures == alive

\* C4: at every instant at most maxConcurrency jobs hold an admission slot,
\* so at most maxConcurrency invocations of the processor run at once.
C4_BoundedConcurrency ==
    /\ Cardinality(Running) <= maxConcurrency
    /\ Cardinality(Fetching) <= maxConcurrency

\* C4 witness: every slot is taken and a further job waits in the queue.
C4_Witness ==
    /\ Cardinality(Fetching) = maxConcurrency
    /\ jobQueue # <<>>

\* C5: the promise of addJob is rejected only when the job has used up its
\* retries and is finally failed; a failure that a retry may still repair
\* does not reach the caller.
C5_RejectedOnlyWhenExhausted ==
    \A id \in JobIds :
        caller[id].state = "rejected"
        => (run[id].state = "ended" /\ jobResults[id].error)

\* C6: a job whose processor has failed twice is retried: its third
\* invocation is awaited, under way or done (retryAttempts is 3).
C6_ThirdInvocationAfterTwoFailures ==
    \A id \in JobIds :
        run[id].failed = 2
        => (run[id].state \in {"attempt", "backoff"} \/ run[id].calls >= 3)

\* C7: a job is finally failed only after retryAttempts + 1 invocations of
\* its processor, the first one and three retries.
C7_FailedAfterFourInvocations ==
    \A id \in JobIds :
        (run[id].state = "ended" /\ jobResults[id].error)
        => run[id].calls = retryAttempts + 1

\* C8: two invocations of the processor for one user never run at the same
\* time.
C8_OneFetchPerUserAtATime ==
    \A i, j \in Fetching :
        jobs[i].userId = jobs[j].userId => i = j

----------------------------------------------------------------------------
(* Properties of the cache                                                 *)

\* C9: the store never holds more than MAX_CACHE_SIZE entries.
C9_CacheWithinCapacity == Len(cache) <= MAX_CACHE_SIZE

\* C10: getFromCache returns no value once more than the entry's ttl has
\* passed since the setCache that wrote it.
C10_TtlCountsFromInsertion ==
    (lastOp.op = "get" /\ lastOp.found) => lastOp.since <= lastOp.ttl

\* C11: a setCache of a new key that finds the store at capacity with no
\* expired entry removes exactly one entry, one whose last access (its
\* timestamp: the setCache that wrote it or its last hit) is the earliest.
C11_EvictsTheLeastRecentlyUsed ==
    (/\ lastOp.op = "set"
     /\ ~lastOp.found
     /\ lastOp.before >= MAX_CACHE_SIZE
     /\ lastOp.expired = 0)
    => /\ Cardinality(lastOp.dropped) = 1
       /\ \A d \in lastOp.dropped : d.timestamp = lastOp.oldest

----------------------------------------------------------------------------
(* Properties of the rate limiter                                          *)

\* the requests of client c that were admitted, by their place in asked[c]
Admitted(c) == {j \in 1..Len(asked[c]) : asked[c][j].allowed}

\* timestamps recorded for c before its i-th request that are newer than
\* that request's time minus the window
RecordedBefore(c, i, window) ==
    Cardinality({j \in Admitted(c) :
                    j < i /\ asked[c][j].at > asked[c][i].at - window})

\* admitted requests of c with timestamp in (t - window, t]
AdmittedIn(c, t, window) ==
    Cardinality({j \in Admitted(c) :
                    asked[c][j].at > t - window /\ asked[c][j].at <= t})

\* C13: a request is denied exactly when the client already has at least 5
\* recorded timestamps newer than now - 10s or at least 10 newer than
\* now - 60s.
C13_DecisionRule ==
    \A c \in Clients : \A i \in 1..Len(asked[c]) :
        ~asked[c][i].allowed
        <=> (\/ RecordedBefore(c, i, 10000) >= 5
             \/ RecordedBefore(c, i, 60000) >= 10)

\* C13 witness: a request was denied by the long window alone, and a later
\* one was admitted.
C13_Witness ==
    \E c \in Clients : \E i, k \in 1..Len(asked[c]) :
        /\ ~asked[c][i].allowed
        /\ RecordedBefore(c, i, 10000) < 5
        /\ RecordedBefore(c, i, 60000) >= 10
        /\ i < k
        /\ asked[c][k].allowed

\* C14: for every client and every instant t, at most 10 admitted requests
\* have their timestamp in (t - 60s, t] and at most 5 in (t - 10s, t].  A
\* window holds the most when it ends at the timestamp of an admitted
\* request, so the instants taken are those timestamps and the present.
C14_AdmittedRateBound ==
    \A c \in Clients :
        \A t \in {asked[c][j].at : j \in 1..Len(asked[c])} \cup {now} :
            /\ AdmittedIn(c, t, 60000) <= 10
            /\ AdmittedIn(c, t, 10000) <= 5

\* C14 witness: a client has used up the long window, 10 admitted requests
\* within 60s, and its next request was denied.
C14_Witness ==
    \E c \in Clients :
        /\ AdmittedIn(c, now, 60000) = 10
        /\ Len(asked[c]) > 10
        /\ ~asked[c][Len(asked[c])].allowed

\* C15: of a client with no earlier requests whose first 5 requests come
\* within 1 second, those 5 are admitted, every further request made less
\* than 10s after the 1st is denied, and the first request made 10s or more
\* after the 1st is admitted.
C15_BurstScenario ==
    \A c \in Clients :
        LET q == asked[c]
        IN (Len(q) >= 5 /\ q[5].at - q[1].at <= 1000)
           => /\ \A i \in 1..5 : q[i].allowed
              /\ \A i \in 6..Len(q) :
                    /\ q[i].at < q[1].at + 10000 => ~q[i].allowed
                    /\ (/\ q[i].at >= q[1].at + 10000
                        /\ \A j \in 6..(i - 1) : q[j].at < q[1].at + 10000)
                       => q[i].allowed

\* C15 witness: after 5 requests within a second, a 6th was denied just
\* before the 10s were over and a 7th admitted when they were.
C15_Witness ==
    \E c \in Clients :
        LET q == asked[c]
        IN /\ Len(q) >= 7
           /\ q[5].at - q[1].at <= 1000
           /\ q[6].at = q[1].at + 9999 /\ ~q[6].allowed
           /\ q[7].at = q[1].at + 10000 /\ q[7].allowed

\* the client has made, so far, one request every 7 seconds from t = 0
EverySevenSeconds(c) ==
    /\ asked[c] # <<>>
    /\ \A i \in 1..Len(asked[c]) : asked[c][i].at = (i - 1) * 7000

\* C16 as stated: of the requests at t = 0, 7, ..., 70 the first 10 are
\* admitted and the 11th, at t = 70, is denied.
C16_EleventhDenied ==
    \A c \in Clients :
        (EverySevenSeconds(c) /\ Len(asked[c]) = 11)
        => /\ \A i \in 1..10 : asked[c][i].allowed
           /\ ~asked[c][11].allowed

\* C16 as amended: every request made every 7 seconds from t = 0 is
\* admitted, the 11th at t = 70 too: the 1st left the long window at 60s.
C16_AllElevenAdmitted ==
    \A c \in Clients :
        EverySevenSeconds(c) => \A i \in 1..Len(asked[c]) : asked[c][i].allowed

\* C16 witness: the 11 requests were made and the 11th was admitted while
\* the long window held the 8 requests of t = 14, ..., 63.
C16_Witness ==
    \E c \in Clients :
        /\ EverySevenSeconds(c)
        /\ Len(asked[c]) = 11
        /\ asked[c][11].allowed
        /\ RecordedBefore(c, 11, 60000) = 8

\* slots left to c when its i-th request is handled
SlotsLeft(c, i) ==
    LET burst == 5 - RecordedBefore(c, i, 10000)
        long == 10 - RecordedBefore(c, i, 60000)
    IN IF burst < long THEN burst ELSE long

\* C17: when a request of a client is handled with exactly one slot left
\* while another request of the client is in flight, the two are not both
\* admitted.
C17_OneSlotAdmitsOne ==
    \A c \in Clients : \A i \in 1..(Len(asked[c]) - 1) :
        (/\ asked[c][i].others >= 1
         /\ asked[c][i + 1].at = asked[c][i].at
         /\ SlotsLeft(c, i) = 1)
        => ~(asked[c][i].allowed /\ asked[c][i + 1].allowed)

\* C17 witness: two requests in flight together met one slot; the first
\* handled was admitted and the other denied.
C17_Witness ==
    \E c \in Clients : \E i \in 1..(Len(asked[c]) - 1) :
        /\ asked[c][i].others >= 1
        /\ asked[c][i + 1].at = asked[c][i].at
        /\ SlotsLeft(c, i) = 1
        /\ asked[c][i].allowed
        /\ ~asked[c][i + 1].allowed

\* the timestamps of q newer than t - window
InWindow(q, t, window) == SelectSeq(q, LAMBDA ts : ts > t - window)

\* C18 as stated, for the calls that record nothing on any reading, the
\* denied ones: the call leaves the client known as before and its two
\* sequences as they were.
C18_CheckMutatesNothing ==
    (lastCheck.clientId # "" /\ ~lastCheck.allowed)
    => /\ lastCheck.known
       /\ rateLimitStore[lastCheck.clientId] = lastCheck.before

\* C18 as amended: a checkRateLimit call changes the client's two
\* sequences in two ways only: it drops the timestamps that have left their
\* window and, if it admits the request, appends the present time to both.
C18_CheckPrunesAndRecords ==
    lastCheck.clientId # ""
    => LET e == rateLimitStore[lastCheck.clientId]
           b == lastCheck.before
           rec == IF lastCheck.allowed THEN <<lastCheck.at>> ELSE <<>>
       IN /\ e.requests = InWindow(b.requests, lastCheck.at, 60000) \o rec
          /\ e.burstRequests
               = InWindow(b.burstRequests, lastCheck.at, 10000) \o rec

\* C18 witness: a denied call dropped timestamps of the client.
C18_Witness ==
    /\ lastCheck.clientId # ""
    /\ ~lastCheck.allowed
    /\ rateLimitStore[lastCheck.clientId] # lastCheck.before

\* C19: the resetTime of a denied request is when the oldest timestamp of
\* the window that denies leaves it, in whole seconds rounded up: oldest
\* burst timestamp + 10s if the burst window denies, oldest long-window
\* timestamp + 60s if the long window does.
C19_ResetWhenWindowFrees ==
    (lastCheck.clientId # "" /\ ~lastCheck.allowed)
    => LET burst == InWindow(lastCheck.before.burstRequests, lastCheck.at,
                             10000)
           long == InWindow(lastCheck.before.requests, lastCheck.at, 60000)
       IN \/ /\ Len(burst) >= 5
             /\ lastCheck.info.resetTime
                  = (MathMin(SeqRange(burst)) + 10000 + 999) \div 1000
          \/ /\ Len(long) >= 10
             /\ lastCheck.info.resetTime
                  = (MathMin(SeqRange(long)) + 60000 + 999) \div 1000

----------------------------------------------------------------------------
(* Properties of the request pipeline                                      *)

\* C20: a request that the rate limiter denies is answered with 429 by the
\* middleware and goes no further: in the step that handles it the cache
\* and its counters, the jobs, the queue and the state of every fetch stay
\* as they are.
C20_DeniedStopsAtTheLimiter ==
    [][(Handled(asked') = Handled(asked) + 1 /\ ~lastCheck'.allowed)
       => /\ lastCheck'.status = 429
          /\ UNCHANGED <<cache, stats, lastOp, calls>>
          /\ UNCHANGED <<jobs, jobQueue, activeJobs, jobResults, firstKey,
                         queueStats, run, caller>>]_vars

\* C20 witness: a request was denied after admitted ones had missed the
\* cache and added jobs.
C20_Witness ==
    /\ lastCheck.clientId # ""
    /\ ~lastCheck.allowed
    /\ lastCheck.status = 429
    /\ stats.misses > 0
    /\ jobs # <<>>

\* The fetches that were made for the request of job id: its answer came
\* from the queue
Answered(id) == caller[id].state = "resolved"

(* C30: every value held under the key of user k is the data of user k.    *)
C30_KeyHoldsItsOwnUser ==
    \A i \in 1..Len(cache) : cache[i].value = cache[i].key

(* C21: once a GET for an existing user has been answered through the      *)
(* queue, the key of that user is in the cache (nothing clears, deletes or *)
(* evicts in this specification and the clock stands still).               *)
C21_AnsweredUserIsCached ==
    \A id \in JobIds :
        (Answered(id) /\ getUserById(jobs[id].userId) # <<>>)
            => CacheHas(cache, cacheKey(jobs[id].userId))

----------------------------------------------------------------------------
(* Further properties of the queue                                         *)

\* the jobs for userId that ended with a result not older than ResultWindow
SucceededFor(userId, t) ==
    {i \in JobIds : /\ jobs[i].userId = userId
                    /\ jobResults[i].has
                    /\ ~jobResults[i].error
                    /\ t - jobResults[i].timestamp < ResultWindow}

(* C22: an addJob for a user made within 5 seconds after a job for the     *)
(* same user succeeded returns the stored result and does not invoke the   *)
(* processor.                                                              *)
C22_SuccessIsRetained ==
    [][Len(jobs') = Len(jobs) + 1 =>
         LET id == Len(jobs')
         IN SucceededFor(jobs'[id].userId, now) # {} =>
               /\ run'[id].calls = 0
               /\ caller'[id].state = "resolved"]_vars

(* C23: after its n-th failure, n = 1, 2, 3, a job waits at least          *)
(* retryDelay * 2^(n-1) and is then invoked again.                         *)
C23_ExponentialBackoff ==
    \A id \in JobIds :
        LET n == run[id].failed
        IN n \in 1..retryAttempts =>
             \/ /\ run[id].state = "backoff"
                /\ run[id].due - jobResults[id].timestamp
                       >= retryDelay * 2^(n - 1)
             \/ run[id].calls > n

(* C31: a job whose result was taken from jobResults instead of a fetch     *)
(* holds a result that was fetched for its own user, and so does its       *)
(* caller.                                                                 *)
C31_ReusedResultIsOfSameUser ==
    \A id \in JobIds :
        run[id].state = "reused" =>
            /\ jobResults[id].result = jobs[id].userId
            /\ caller[id].state = "resolved" =>
                  caller[id].value = jobs[id].userId

(* C34: completedJobs + failedJobs never exceeds totalJobs.                *)
C34_CountersWithinTotal ==
    queueStats.completedJobs + queueStats.failedJobs <= queueStats.totalJobs

(* C38: jobs leave jobQueue in the order of their addJob calls: while a    *)
(* job waits in the queue no job added after it has been started, and the  *)
(* queue holds the waiting jobs in that order.                             *)
C38_FifoStartOrder ==
    /\ \A i \in SeqRange(jobQueue) : \A j \in JobIds :
          i < j => run[j].state = "queued" /\ run[j].calls = 0
    /\ \A a, b \in 1..Len(jobQueue) : a < b => jobQueue[a] < jobQueue[b]

C38_Witness ==
    \E i, j \in JobIds :
        /\ i < j
        /\ jobs[i].userId = jobs[j].userId
        /\ run[i].calls = 1
        /\ run[i].by = jobs[i].userId
        /\ Cardinality(Running) = maxConcurrency
        /\ i > maxConcurrency
        /\ jobQueue = <<j>>

(* C35: also after a clearQueue, no more than maxConcurrency invocations   *)
(* of the processor run at the same time.                                  *)
C35_BoundSurvivesClearQueue ==
    (\E id \in JobIds : run[id].atClear /\ run[id].state # "cleared")
        => Cardinality(Fetching) <= maxConcurrency

(* C36: the promise addJob returned for a job that a clearQueue met queued *)
(* or running is eventually resolved or rejected.                          *)
C36_ClearQueueStrandsNoCaller ==
    \A id \in 1..MaxClearJobs :
        (id \in JobIds /\ run[id].atClear)
          ~> (id \in JobIds /\ caller[id].state # "pending")

(* C24: a job whose execution has ended, by success or by its last         *)
(* failure, is not in activeJobs, and a job waiting for its retry is.      *)
C24_SlotReleasedWhenJobEnds ==
    \A id \in JobIds :
        /\ run[id].state \in {"ended", "reused"} => id \notin activeJobs
        /\ run[id].state = "backoff" => id \in activeJobs

C24_Witness ==
    \E i, j \in JobIds :
        /\ run[i].state = "ended" /\ run[i].failed > 0 /\ i \notin activeJobs
        /\ run[j].state = "backoff" /\ j \in activeJobs

----------------------------------------------------------------------------
(* Further properties of the cache                                         *)

\* a step that is a call of one of the cache's exports
CacheCall(op) == calls' = calls + 1 /\ lastOp'.op = op

(* C25: a clearCache that follows a clearCache leaves the store and the    *)
(* counters as they were, and a getCacheStats that follows a clearCache    *)
(* reports size, hits and misses all 0.                                    *)
C25_ClearIsIdempotent ==
    [][lastOp.op = "clear" =>
         /\ CacheCall("clear") => cache' = cache /\ stats' = stats
         /\ CacheCall("stats") =>
               stats'.size = 0 /\ stats'.hits = 0 /\ stats'.misses = 0]_vars

C25_Witness ==
    /\ lastOp.op = "clear"
    /\ lastOp.afterClear
    /\ calls > 2
    /\ cache = <<>>
    /\ stats.misses = 0

(* C26: deleteFromCache(key) returns true exactly when the store held the  *)
(* key; afterwards the key is not held and every other entry is; a         *)
(* getFromCache or a deleteFromCache of that key that follows finds        *)
(* nothing.                                                                *)
C26_DeleteContract ==
    [][/\ CacheCall("delete") =>
            LET key == lastOp'.key
            IN /\ lastOp'.found = CacheHas(cache, key)
               /\ ~CacheHas(cache', key)
               /\ \A i \in 1..Len(cache) :
                     cache[i].key # key =>
                        \E j \in 1..Len(cache') : cache'[j] = cache[i]
               /\ Len(cache') =
                     Len(cache) - (IF CacheHas(cache, key) THEN 1 ELSE 0)
       /\ (/\ lastOp.op = "delete"
           /\ CacheCall("get") \/ CacheCall("delete")
           /\ lastOp'.key = lastOp.key) => ~lastOp'.found]_vars

C26_Witness ==
    /\ lastOp.op = "delete"
    /\ lastOp.found
    /\ ~CacheHas(cache, lastOp.key)
    /\ cache # <<>>

(* C27: getFromCache of a key that is not held, or whose entry was written *)
(* more than its ttl ago, returns nothing and adds 1 to misses and nothing *)
(* to hits; of a key held and not expired it returns the value, adds 1 to  *)
(* hits and nothing to misses, and sets the entry's last access to now.    *)
C27_GetContract ==
    [][CacheCall("get") =>
         LET key == lastOp'.key
         IN IF \/ ~CacheHas(cache, key)
               \/ now - CacheGet(cache, key).insertedAt
                     > CacheGet(cache, key).ttl
            THEN /\ ~lastOp'.found
                 /\ stats'.misses = stats.misses + 1
                 /\ stats'.hits = stats.hits
            ELSE /\ lastOp'.found
                 /\ lastOp'.value = CacheGet(cache, key).value
                 /\ stats'.hits = stats.hits + 1
                 /\ stats'.misses = stats.misses
                 /\ CacheHas(cache', key)
                 /\ CacheGet(cache', key).timestamp = now]_vars

(* C33: a setCache of a key the store holds, with no entry past its ttl,   *)
(* takes no other key out of the store.                                    *)
C33_OverwriteKeepsOtherKeys ==
    (lastOp.op = "set" /\ lastOp.found /\ lastOp.expired = 0)
    => lastOp.dropped = {}

(* C29: once startCacheCleanup has run, an entry that was written more     *)
(* than its ttl ago is eventually out of the store, with no call of        *)
(* getFromCache or setCache needed to remove it.                           *)
C29_SweepRemovesExpired ==
    \A k \in ContractKeys :
        (/\ cleanupInterval
         /\ CacheHas(cache, k)
         /\ now - CacheGet(cache, k).insertedAt > CacheGet(cache, k).ttl)
          ~> ~CacheHas(cache, k)

C29_Witness ==
    /\ cleanupInterval
    /\ lastOp.op = "set"
    /\ ~CacheHas(cache, lastOp.key)

----------------------------------------------------------------------------
(* Further properties of the rate limiter                                  *)

\* how often ts occurs in the sequence q
Occurs(q, ts) == Cardinality({i \in 1..Len(q) : q[i] = ts})

\* the admitted requests of c made at time ts
AdmittedAt(c, ts) ==
    Cardinality({j \in Admitted(c) : asked[c][j].at = ts})

(* C32: a denied call records nothing: each window of a client holds a     *)
(* timestamp no more often than requests of the client were admitted at    *)
(* that time; and a request that follows a denied one is admitted exactly  *)
(* when fewer than 5 admitted requests lie in its burst window and fewer   *)
(* than 10 in its long window.                                             *)
C32_DeniedNotCounted ==
    /\ \A c \in DOMAIN rateLimitStore :
          LET e == rateLimitStore[c]
          IN \A ts \in SeqRange(e.requests) \cup SeqRange(e.burstRequests) :
                /\ Occurs(e.requests, ts) <= AdmittedAt(c, ts)
                /\ Occurs(e.burstRequests, ts) <= AdmittedAt(c, ts)
    /\ \A c \in Clients : \A k \in 2..Len(asked[c]) :
          ~asked[c][k - 1].allowed =>
             (asked[c][k].allowed
                <=> /\ RecordedBefore(c, k, burstWindowMs) < maxBurstRequests
                    /\ RecordedBefore(c, k, windowMs) < maxRequests)

C32_Witness ==
    \E c \in DOMAIN rateLimitStore : \E k \in 3..Len(asked[c]) :
        /\ ~asked[c][k - 2].allowed
        /\ ~asked[c][k - 1].allowed
        /\ asked[c][k].allowed
        /\ Len(rateLimitStore[c].requests) = Cardinality(Admitted(c))

(* C37: a checkRateLimit call for one client leaves the entry of every     *)
(* other client as it was, and its outcome is decided by the admitted      *)
(* requests of its own client alone.                                       *)
C37_ClientIsolation ==
    [][Handled(asked') = Handled(asked) + 1 =>
         LET c == lastCheck'.clientId
         IN /\ \A d \in Clients \ {c} :
                  /\ d \in DOMAIN rateLimitStore' <=> d \in DOMAIN rateLimitStore
                  /\ d \in DOMAIN rateLimitStore =>
                        rateLimitStore'[d] = rateLimitStore[d]
            /\ lastCheck'.allowed
                  <=> /\ AdmittedIn(c, now, burstWindowMs) < maxBurstRequests
                      /\ AdmittedIn(c, now, windowMs) < maxRequests]_vars

C37_Witness ==
    \E c, d \in DOMAIN rateLimitStore :
        /\ c # d
        /\ lastCheck.clientId = c
        /\ ~lastCheck.allowed
        /\ Len(rateLimitStore[d].burstRequests) < maxBurstRequests
        /\ asked[d][Len(asked[d])].allowed
        /\ asked[d][Len(asked[d])].at = now

\* the decision a limiter that is never swept gives at time t to a client
\* for which it has recorded the timestamps kept
WouldAllow(kept, t) ==
    /\ Len(SelectSeq(kept, LAMBDA ts : t - ts < burstWindowMs))
          < maxBurstRequests
    /\ Len(SelectSeq(kept, LAMBDA ts : t - ts < windowMs)) < maxRequests

\* the timestamps a limiter that is never swept has recorded for c after
\* the first i requests of c
RECURSIVE KeptUpTo(_, _)
KeptUpTo(c, i) ==
    IF i = 0 THEN <<>>
    ELSE LET prev == KeptUpTo(c, i - 1)
             t == asked[c][i].at
         IN IF WouldAllow(prev, t) THEN Append(prev, t) ELSE prev

(* C39: the sweep of startRateLimitCleanup leaves the entry of a client    *)
(* that has a recorded timestamp inside the long window as it is, and      *)
(* every request gets the decision a limiter that is never swept gives it. *)
C39_SweepRestoresNoBudget ==
    /\ [][rateLimitCleanup' # rateLimitCleanup =>
            \A c \in DOMAIN rateLimitStore :
                (\E ts \in SeqRange(rateLimitStore[c].requests) :
                     now - ts < windowMs)
                => /\ c \in DOMAIN rateLimitStore'
                   /\ rateLimitStore'[c] = rateLimitStore[c]]_vars
    /\ [](\A c \in Clients : \A i \in 1..Len(asked[c]) :
             asked[c][i].allowed
             <=> WouldAllow(KeptUpTo(c, i - 1), asked[c][i].at))

\* C39 witness: the sweep ran over a client with timestamps inside the long
\* window, and a later request of that client was denied by the long
\* window alone
C39_Witness ==
    \E c \in DOMAIN rateLimitStore :
        /\ rateLimitCleanup > RateLimitSweepEvery
        /\ now > rateLimitCleanup - RateLimitSweepEvery
        /\ lastCheck.clientId = c
        /\ ~lastCheck.allowed
        /\ asked[c][Len(asked[c])].at = now
        /\ Len(rateLimitStore[c].burstRequests) < maxBurstRequests
        /\ \E j \in Admitted(c) :
              /\ asked[c][j].at <= rateLimitCleanup - RateLimitSweepEvery
              /\ rateLimitCleanup - RateLimitSweepEvery - asked[c][j].at
                    < windowMs

(* C28: with the cleanup task running, a client in the store that makes no *)
(* further requests is eventually removed from it, and is removed only     *)
(* when none of its requests is younger than two long windows, that is     *)
(* when its windows have been empty for a long window or more.             *)
C28_IdleClientsAreForgotten ==
    /\ \A c \in Clients :
          (c \in DOMAIN rateLimitStore) ~> (c \notin DOMAIN rateLimitStore)
    /\ [][\A c \in DOMAIN rateLimitStore :
            c \notin DOMAIN rateLimitStore' =>
               \A ts \in SeqRange(rateLimitStore[c].requests)
                          \cup SeqRange(rateLimitStore[c].burstRequests) :
                   now - ts >= windowMs + windowMs]_vars

C28_Witness ==
    \E c \in Clients :
        /\ asked[c] # <<>>
        /\ c \notin DOMAIN rateLimitStore

====
